---- MODULE Spec2Model ----
(***************************************************************************)
(* Sense projection through word alignments.                               *)
(*                                                                         *)
(* Two programs of the repository project gold sense labels of an         *)
(* annotated English corpus onto the aligned target tokens:               *)
(*   run_projection.py    project_senses(...)                              *)
(*   sense_projection.py  SenseProjector (project_senses, main,            *)
(*                        show_example_sentence)                           *)
(* Both read the same kind of stores (sense key file, annotation table,   *)
(* alignments, source and target token files).  A third program measures  *)
(* the quality of the alignments over the same token and alignment files: *)
(*   alignment_quality_eval.py  AlignmentEvaluator                         *)
(* The variable prog says which program a behaviour runs; pc is its       *)
(* position.  Positions are 0-based as in the source; At(s, i) reads a    *)
(* Python list.                                                            *)
(***************************************************************************)
EXTENDS Integers, Sequences, FiniteSets, TLC

VARIABLES
    prog,                 \* the program that runs: RP, SP or EV
    pc,                   \* position of the running program
    key_lines,            \* key file: one sequence of fields (line.split()) per line
    files,                \* the alignment file and the two token files, line by line
    se13,                 \* annotation table: per sentence (sorted sentence_id) its rows
    alignments,           \* per sentence index the list of links <<src, tgt>>
    english_sentences,    \* english_tokens / self.english_tokens
    chinese_sentences,    \* chinese_tokens / self.target_tokens
    sense_dict,           \* sense_dict / self.instance_to_bn
    sentence_to_instances,\* self.sentence_to_instances (a defaultdict) of SenseProjector
    sent_idx,             \* index of the sentence being projected
    eng_pos,              \* reconciliation: aligner-source position
    se13_idx,             \* reconciliation: cursor into the annotation rows
    eng_pos_to_se13_idx,  \* reconciliation map of the current sentence
    link_idx,             \* number of links of the current sentence already processed
    projections,          \* projections / projected_senses: the output records
    shown,                \* lines printed under "Sense projections:" by show_example_sentence
    previous,             \* the lists returned by the earlier runs of project_senses
    report,               \* what the operations of AlignmentEvaluator computed so far
    error                 \* "none" or the exception that ended the program

vars == <<prog, pc, key_lines, files, se13, alignments, english_sentences,
          chinese_sentences, sense_dict, sentence_to_instances, sent_idx, eng_pos,
          se13_idx, eng_pos_to_se13_idx, link_idx, projections, shown, previous,
          report, error>>

\* what a program reads
inputs == <<prog, key_lines, files, se13>>

\* the stores the token files and the alignment file were loaded into
stores == <<alignments, english_sentences, chinese_sentences>>

\* what only some operations write
rest == <<previous, report>>

(***************************************************************************)
(* Bounds of the model.                                                    *)
(***************************************************************************)
MaxSe13Len == 2      \* rows of one annotation sentence
MaxEngLen == 2       \* tokens of one aligner-source sentence
MaxTgtLen == 1       \* tokens of one target sentence
MaxLinks == 2        \* links of one alignment
MaxReconLen == 3     \* sentence length in the reconciliation specification
MaxKeyLines == 2     \* lines of the key file in the key-file specification
MaxTokenLen == 5     \* characters of one token of an alignment payload
MaxFileLines == 2    \* lines of a token file or an alignment file
MaxEvalLinks == 3    \* links of the corpus AlignmentEvaluator measures
MaxStoreLen == 2     \* sentences of a store in the stores specification
MaxRuns == 2         \* runs of project_senses on one object

(***************************************************************************)
(* Python values.                                                          *)
(***************************************************************************)
NoInstance == "None"

EmptyDict == [k \in {} |-> 0]

Put(d, k, v) == [x \in (DOMAIN d) \cup {k} |-> IF x = k THEN v ELSE d[x]]

At(s, i) == s[i + 1]

InList(s, i) == i >= 0 /\ i < Len(s)

Lower(t) ==
    CASE t = "A" -> "a"
      [] t = "B" -> "b"
      [] t = "X" -> "x"
      [] OTHER -> t

SeqsFromTo(S, lo, hi) == UNION {[1..k -> S] : k \in lo..hi}

Min(S) == CHOOSE x \in S : \A y \in S : x <= y

(***************************************************************************)
(* Key file loaders.                                                       *)
(***************************************************************************)
RECURSIVE load_gold_sense_annotations_from(_, _)
load_gold_sense_annotations_from(lines, d) ==
    IF lines = <<>> THEN d
    ELSE LET parts == Head(lines)
         IN  load_gold_sense_annotations_from(Tail(lines),
                 IF Len(parts) = 2 THEN Put(d, parts[1], parts[2]) ELSE d)

load_gold_sense_annotations(lines) == load_gold_sense_annotations_from(lines, EmptyDict)

RECURSIVE load_sense_annotations_from(_, _)
load_sense_annotations_from(lines, d) ==
    IF lines = <<>> THEN d
    ELSE LET parts == Head(lines)
         IN  load_sense_annotations_from(Tail(lines),
                 IF Len(parts) >= 2 /\ Len(Tail(parts)) = 1
                 THEN Put(d, parts[1], Tail(parts)[1])
                 ELSE d)

load_sense_annotations(lines) == load_sense_annotations_from(lines, EmptyDict)

(***************************************************************************)
(* Token files and alignment files.                                        *)
(*                                                                         *)
(* A token file is a sequence of lines, a line the sequence of its tokens  *)
(* (line.strip().split()); a blank line is <<>>.  An alignment file read   *)
(* by SenseProjector or AlignmentEvaluator is a sequence of lines, a line  *)
(* the sequence of its tab-separated fields (line.strip().split('\t')),    *)
(* a field the sequence of its tokens and a token the sequence of its      *)
(* characters; a blank line is <<>>.  An alignment file read by            *)
(* run_projection.py holds one Python list literal per line: a line is     *)
(* <<>> when blank and otherwise <<value>>, value being the list of links  *)
(* the literal denotes.                                                    *)
(***************************************************************************)
Digits == <<"0", "1", "2", "3", "4", "5", "6", "7", "8", "9">>

IsDigit(c) == \E i \in DOMAIN Digits : Digits[i] = c

DigitVal(c) == (CHOOSE i \in DOMAIN Digits : Digits[i] = c) - 1

\* '-' in pair
Contains(chars, c) == \E i \in DOMAIN chars : chars[i] = c

\* pair.split('-'): n separators give n + 1 pieces, empty ones included
RECURSIVE SplitFrom(_, _, _, _)
SplitFrom(chars, sep, piece, pieces) ==
    IF chars = <<>> THEN Append(pieces, piece)
    ELSE IF Head(chars) = sep
         THEN SplitFrom(Tail(chars), sep, <<>>, Append(pieces, piece))
         ELSE SplitFrom(Tail(chars), sep, Append(piece, Head(chars)), pieces)

Split(chars, sep) == SplitFrom(chars, sep, <<>>, <<>>)

\* int(piece) succeeds on a non-empty run of digits
IsInt(piece) == piece # <<>> /\ \A i \in DOMAIN piece : IsDigit(piece[i])

RECURSIVE IntFrom(_, _)
IntFrom(piece, n) ==
    IF piece = <<>> THEN n ELSE IntFrom(Tail(piece), 10 * n + DigitVal(Head(piece)))

IntOf(piece) == IntFrom(piece, 0)

\* the loop over parts[1].split() were a link kept once, as in a set
RECURSIVE parse_pairs_once(_, _)
parse_pairs_once(tokens, align_pairs) ==
    IF tokens = <<>> THEN [value |-> align_pairs, error |-> "none"]
    ELSE LET pair == Head(tokens)
             halves == Split(pair, "-")
         IN  IF ~Contains(pair, "-")
             THEN parse_pairs_once(Tail(tokens), align_pairs)
             ELSE IF Len(halves) # 2 \/ ~IsInt(halves[1]) \/ ~IsInt(halves[2])
                  THEN [value |-> align_pairs, error |-> "ValueError"]
                  ELSE LET link == <<IntOf(halves[1]), IntOf(halves[2])>>
                       IN  parse_pairs_once(Tail(tokens),
                               IF \E n \in DOMAIN align_pairs : align_pairs[n] = link
                               THEN align_pairs ELSE Append(align_pairs, link))

\* the loop over parts[1].split(): the links read so far and the exception
\* that ended the loop
RECURSIVE parse_pairs(_, _)
parse_pairs(tokens, align_pairs) ==
    IF tokens = <<>> THEN [value |-> align_pairs, error |-> "none"]
    ELSE LET pair == Head(tokens)
             halves == Split(pair, "-")
         IN  IF ~Contains(pair, "-")
             THEN parse_pairs(Tail(tokens), align_pairs)
             ELSE IF Len(halves) # 2 \/ ~IsInt(halves[1]) \/ ~IsInt(halves[2])
                  THEN [value |-> align_pairs, error |-> "ValueError"]
                  ELSE parse_pairs(Tail(tokens),
                           Append(align_pairs, <<IntOf(halves[1]), IntOf(halves[2])>>))

\* what one line appends to self.alignments
parse_alignment_line(parts) ==
    IF parts = <<>> THEN [value |-> <<>>, error |-> "none"]
    ELSE IF Len(parts) = 2 THEN parse_pairs(parts[2], <<>>)
         ELSE [value |-> <<>>, error |-> "none"]

\* SenseProjector.load_alignments and the same loop of
\* AlignmentEvaluator.__init__: self.alignments when the loop ended
RECURSIVE load_alignment_lines(_, _)
load_alignment_lines(lines, loaded) ==
    IF lines = <<>> THEN [value |-> loaded, error |-> "none"]
    ELSE LET r == parse_alignment_line(Head(lines))
         IN  IF r.error # "none" THEN [value |-> loaded, error |-> r.error]
             ELSE load_alignment_lines(Tail(lines), Append(loaded, r.value))

NotBlank(line) == line # <<>>

\* run_projection.load_alignments: ast.literal_eval of every non-blank line
load_alignments(lines) ==
    LET kept == SelectSeq(lines, NotBlank)
    IN  [k \in 1..Len(kept) |-> kept[k][1]]

\* run_projection.load_tokens, SenseProjector.load_token_files and the token
\* part of AlignmentEvaluator.__init__
load_tokens(lines) == SelectSeq(lines, NotBlank)

(***************************************************************************)
(* run_projection.py: project_senses                                       *)
(***************************************************************************)
RP == "run_projection"
SP == "sense_projection"
EV == "alignment_quality_eval"

\* the sentence the loop is at (sentence_ids are the sorted ids: rank = index)
CurSe13 == At(se13, sent_idx)
CurAlignment == At(alignments, sent_idx)
CurEnglish == At(english_sentences, sent_idx)
CurChinese == At(chinese_sentences, sent_idx)

RPLoad ==
    /\ prog = RP /\ pc = "load"
    /\ sense_dict' = load_gold_sense_annotations(key_lines)
    /\ pc' = "sentence"
    /\ UNCHANGED <<inputs, stores, rest, sentence_to_instances,
                   sent_idx, eng_pos, se13_idx, eng_pos_to_se13_idx,
                   link_idx, projections, shown, error>>

RPSkipSentence ==
    \/ sent_idx >= Len(alignments)
    \/ sent_idx >= Len(english_sentences)
    \/ sent_idx >= Len(chinese_sentences)

RPNextSentence ==
    /\ prog = RP /\ pc = "sentence"
    /\ sent_idx < Len(se13)
    /\ IF RPSkipSentence
       THEN /\ sent_idx' = sent_idx + 1
            /\ UNCHANGED <<pc, eng_pos, se13_idx, eng_pos_to_se13_idx>>
       ELSE /\ eng_pos_to_se13_idx' = EmptyDict
            /\ se13_idx' = 0
            /\ eng_pos' = 0
            /\ pc' = "recon"
            /\ UNCHANGED sent_idx
    /\ UNCHANGED <<inputs, stores, rest, sentence_to_instances,
                   sense_dict, link_idx, projections, shown, error>>

TokensEqualExact(se13_token, eng_token) == se13_token = eng_token

TokensEqual(se13_token, eng_token) == Lower(se13_token) = Lower(eng_token)

CursorStays(c) == c

CursorAfterMatch(c) == c + 1

ReconMatch ==
    /\ prog = RP /\ pc = "recon"
    /\ eng_pos < Len(CurEnglish)
    /\ se13_idx < Len(CurSe13)
    /\ TokensEqual(At(CurSe13, se13_idx).raw_text, At(CurEnglish, eng_pos))
    /\ eng_pos_to_se13_idx' = Put(eng_pos_to_se13_idx, eng_pos, se13_idx)
    /\ se13_idx' = CursorAfterMatch(se13_idx)
    /\ eng_pos' = eng_pos + 1
    /\ UNCHANGED <<inputs, stores, rest, sentence_to_instances,
                   pc, sense_dict, sent_idx, link_idx, projections, shown, error>>

\* a mismatch that leaves the cursor where it is
ReconSkipStuck ==
    /\ prog = RP /\ pc = "recon"
    /\ eng_pos < Len(CurEnglish)
    /\ se13_idx < Len(CurSe13)
    /\ ~TokensEqual(At(CurSe13, se13_idx).raw_text, At(CurEnglish, eng_pos))
    /\ UNCHANGED vars

ReconSkip ==
    /\ prog = RP /\ pc = "recon"
    /\ eng_pos < Len(CurEnglish)
    /\ se13_idx < Len(CurSe13)
    /\ ~TokensEqual(At(CurSe13, se13_idx).raw_text, At(CurEnglish, eng_pos))
    /\ se13_idx' = se13_idx + 1
    /\ UNCHANGED <<inputs, stores, rest, sentence_to_instances,
                   pc, sense_dict, sent_idx, eng_pos, eng_pos_to_se13_idx,
                   link_idx, projections, shown, error>>

\* a scan that starts over from the first annotation token for the next position
ReconRestart ==
    /\ prog = RP /\ pc = "recon"
    /\ eng_pos < Len(CurEnglish)
    /\ se13_idx >= Len(CurSe13)
    /\ eng_pos' = eng_pos + 1
    /\ se13_idx' = 0
    /\ UNCHANGED <<inputs, stores, rest, sentence_to_instances,
                   pc, sense_dict, sent_idx, eng_pos_to_se13_idx,
                   link_idx, projections, shown, error>>

ReconExhausted ==
    /\ prog = RP /\ pc = "recon"
    /\ eng_pos < Len(CurEnglish)
    /\ se13_idx >= Len(CurSe13)
    /\ eng_pos' = eng_pos + 1
    /\ UNCHANGED <<inputs, stores, rest, sentence_to_instances,
                   pc, sense_dict, sent_idx, se13_idx, eng_pos_to_se13_idx,
                   link_idx, projections, shown, error>>

ReconDone ==
    /\ prog = RP /\ pc = "recon"
    /\ eng_pos >= Len(CurEnglish)
    /\ pc' = "links"
    /\ link_idx' = 0
    /\ UNCHANGED <<inputs, stores, rest, sentence_to_instances,
                   sense_dict, sent_idx, eng_pos, se13_idx, eng_pos_to_se13_idx,
                   projections, shown, error>>

\* sum(1 for t in se13_tokens if t['instance_id'] == instance_id)
InstanceCount(rows, instance_id) ==
    Cardinality({i \in 1..Len(rows) : rows[i].instance_id = instance_id})

RPLinkInBounds(link) ==
    ~(link[1] >= Len(CurEnglish) \/ link[2] >= Len(CurChinese))

RPTargetText(token) == token

RPAppendOnce(out, rec) == IF \E i \in 1..Len(out) : out[i] = rec THEN out ELSE Append(out, rec)

RPAppend(out, rec) == Append(out, rec)

RPProcessLink ==
    /\ prog = RP /\ pc = "links"
    /\ link_idx < Len(CurAlignment)
    /\ link_idx' = link_idx + 1
    /\ LET link == At(CurAlignment, link_idx)
           src == link[1]
           tgt == link[2]
       IN  IF ~RPLinkInBounds(link) \/ src \notin DOMAIN eng_pos_to_se13_idx
           THEN UNCHANGED <<se13_idx, projections, pc, error>>
           ELSE LET idx == eng_pos_to_se13_idx[src]
                IN  /\ se13_idx' = idx
                    /\ IF ~InList(CurSe13, idx)
                       THEN /\ error' = "IndexError" /\ pc' = "aborted"
                            /\ UNCHANGED projections
                       ELSE LET instance_id == At(CurSe13, idx).instance_id
                            IN  IF /\ instance_id # NoInstance
                                   /\ instance_id \in DOMAIN sense_dict
                                   /\ InstanceCount(CurSe13, instance_id) = 1
                                THEN IF ~InList(CurChinese, tgt)
                                     THEN /\ error' = "IndexError" /\ pc' = "aborted"
                                          /\ UNCHANGED projections
                                     ELSE /\ projections' = RPAppend(projections,
                                                <<sense_dict[instance_id],
                                                  RPTargetText(At(CurChinese, tgt))>>)
                                          /\ UNCHANGED <<pc, error>>
                                ELSE UNCHANGED <<projections, pc, error>>
    /\ UNCHANGED <<inputs, stores, rest, sentence_to_instances,
                   sense_dict, sent_idx, eng_pos, eng_pos_to_se13_idx, shown>>

RPLinksDone ==
    /\ prog = RP /\ pc = "links"
    /\ link_idx >= Len(CurAlignment)
    /\ sent_idx' = sent_idx + 1
    /\ pc' = "sentence"
    /\ UNCHANGED <<inputs, stores, rest, sentence_to_instances,
                   sense_dict, eng_pos, se13_idx, eng_pos_to_se13_idx,
                   link_idx, projections, shown, error>>

RPFinish ==
    /\ prog = RP /\ pc = "sentence"
    /\ sent_idx >= Len(se13)
    /\ pc' = "done"
    /\ UNCHANGED <<inputs, stores, rest, sentence_to_instances,
                   sense_dict, sent_idx, eng_pos, se13_idx, eng_pos_to_se13_idx,
                   link_idx, projections, shown, error>>

NextRP ==
    \/ RPLoad
    \/ RPNextSentence
    \/ ReconMatch
    \/ ReconSkip
    \/ ReconExhausted
    \/ ReconDone
    \/ RPProcessLink
    \/ RPLinksDone
    \/ RPFinish

(***************************************************************************)
(* sense_projection.py: SenseProjector                                     *)
(***************************************************************************)
\* self.sentence_to_instances[sentence_id] as a dict: position -> instance_id,
\* for the rows that carry an instance_id (load_token_mappings + dict(...))
token_to_instance(rows) ==
    [p \in {i \in 0..(Len(rows) - 1) : At(rows, i).instance_id # NoInstance}
        |-> At(rows, p).instance_id]

RECURSIVE SortedList(_)
SortedList(S) ==
    IF S = {} THEN <<>>
    ELSE LET m == CHOOSE x \in S : \A y \in S : x <= y
         IN  <<m>> \o SortedList(S \ {m})

\* load_token_mappings: only the sentences that hold at least one row with an
\* instance_id get a key
load_token_mappings(table) ==
    [k \in {i \in 0..(Len(table) - 1) : DOMAIN token_to_instance(At(table, i)) # {}}
        |-> token_to_instance(At(table, k))]

\* reading d[k] of a defaultdict(list): a missing key is inserted
DefaultDictRead(d, k) == IF k \in DOMAIN d THEN d ELSE Put(d, k, EmptyDict)

\* sorted(self.sentence_to_instances.keys())
SPSentenceIds == SortedList(DOMAIN sentence_to_instances)

SPIndexAsKey(sentence_ids, idx) == idx

\* the key self.sentence_to_instances is read with: the sentence_id of
\* for sent_idx, sentence_id in enumerate(sentence_ids)
SPSentenceKey(sentence_ids, idx) == At(sentence_ids, idx)

\* token_to_instance = dict(self.sentence_to_instances[sentence_id])
InstancesOf(key) == DefaultDictRead(sentence_to_instances, key)[key]

SPCurInstances == InstancesOf(SPSentenceKey(SPSentenceIds, sent_idx))

SPLoad ==
    /\ prog = SP /\ pc = "load"
    /\ sense_dict' = load_sense_annotations(key_lines)
    /\ pc' = "sentence"
    /\ UNCHANGED <<inputs, stores, rest, sentence_to_instances,
                   sent_idx, eng_pos, se13_idx, eng_pos_to_se13_idx,
                   link_idx, projections, shown, error>>

SPSkipSentence ==
    \/ sent_idx >= Len(alignments)
    \/ sent_idx >= Len(english_sentences)
    \/ sent_idx >= Len(chinese_sentences)

SPNextSentence ==
    /\ prog = SP /\ pc = "sentence"
    /\ sent_idx < Len(SPSentenceIds)
    /\ IF SPSkipSentence
       THEN /\ sent_idx' = sent_idx + 1
            /\ UNCHANGED <<pc, link_idx>>
       ELSE /\ pc' = "links"
            /\ link_idx' = 0
            /\ UNCHANGED sent_idx
    /\ sentence_to_instances' =
           IF sent_idx >= Len(alignments) THEN sentence_to_instances
           ELSE DefaultDictRead(sentence_to_instances,
                                SPSentenceKey(SPSentenceIds, sent_idx))
    /\ UNCHANGED <<inputs, stores, rest,
                   sense_dict, eng_pos, se13_idx, eng_pos_to_se13_idx,
                   projections, shown, error>>

SPTargetUnchecked(tgt_idx, tgt_tokens) == TRUE

SPTargetValid(tgt_idx, tgt_tokens) == tgt_idx < Len(tgt_tokens)

SPAppend(out, rec) == Append(out, rec)

SPProcessLink ==
    /\ prog = SP /\ pc = "links"
    /\ link_idx < Len(CurAlignment)
    /\ link_idx' = link_idx + 1
    /\ LET link == At(CurAlignment, link_idx)
           en_idx == link[1]
           tgt_idx == link[2]
       IN  IF /\ en_idx \in DOMAIN SPCurInstances
              /\ SPCurInstances[en_idx] \in DOMAIN sense_dict
              /\ SPTargetValid(tgt_idx, CurChinese)
           THEN IF ~InList(CurChinese, tgt_idx)
                THEN /\ error' = "IndexError" /\ pc' = "aborted"
                     /\ UNCHANGED projections
                ELSE /\ projections' = SPAppend(projections,
                            <<sense_dict[SPCurInstances[en_idx]],
                              Lower(At(CurChinese, tgt_idx))>>)
                     /\ UNCHANGED <<pc, error>>
           ELSE UNCHANGED <<projections, pc, error>>
    /\ UNCHANGED <<inputs, stores, rest, sentence_to_instances,
                   sense_dict, sent_idx, eng_pos, se13_idx,
                   eng_pos_to_se13_idx, shown>>

SPLinksDone ==
    /\ prog = SP /\ pc = "links"
    /\ link_idx >= Len(CurAlignment)
    /\ sent_idx' = sent_idx + 1
    /\ pc' = "sentence"
    /\ UNCHANGED <<inputs, stores, rest, sentence_to_instances,
                   sense_dict, eng_pos, se13_idx, eng_pos_to_se13_idx,
                   link_idx, projections, shown, error>>

SPFinish ==
    /\ prog = SP /\ pc = "sentence"
    /\ sent_idx >= Len(SPSentenceIds)
    /\ pc' = "done"
    /\ UNCHANGED <<inputs, stores, rest, sentence_to_instances,
                   sense_dict, sent_idx, eng_pos, se13_idx, eng_pos_to_se13_idx,
                   link_idx, projections, shown, error>>

\* the "Sense projections:" loop of show_example_sentence: the printed lines,
\* each [sent_idx, bn_id, en_idx, tgt_idx, tgt_tok], and the exception that ended it
RECURSIVE ShowProjections(_, _, _, _, _, _)
ShowProjections(k, links, instances, en_tokens, tgt_tokens, printed) ==
    IF links = <<>> THEN [lines |-> printed, error |-> "none"]
    ELSE LET en_idx == Head(links)[1]
             tgt_idx == Head(links)[2]
         IN  IF en_idx \in DOMAIN instances /\ instances[en_idx] \in DOMAIN sense_dict
             THEN IF ~InList(en_tokens, en_idx)
                  THEN [lines |-> printed, error |-> "IndexError"]
                  ELSE ShowProjections(k, Tail(links), instances, en_tokens, tgt_tokens,
                           Append(printed,
                               [sent_idx |-> k,
                                bn_id |-> sense_dict[instances[en_idx]],
                                en_idx |-> en_idx,
                                tgt_idx |-> tgt_idx,
                                tgt_tok |-> IF tgt_idx < Len(tgt_tokens)
                                            THEN At(tgt_tokens, tgt_idx)
                                            ELSE "???"]))
             ELSE ShowProjections(k, Tail(links), instances, en_tokens, tgt_tokens, printed)

show_example_sentence(k) ==
    IF k >= Len(SPSentenceIds)
    THEN [lines |-> <<>>, error |-> "none"]
    ELSE IF ~InList(english_sentences, k) \/ ~InList(chinese_sentences, k)
            \/ ~InList(alignments, k)
         THEN [lines |-> <<>>, error |-> "IndexError"]
         ELSE ShowProjections(k, At(alignments, k),
                              InstancesOf(SPSentenceKey(SPSentenceIds, k)),
                              At(english_sentences, k), At(chinese_sentences, k), <<>>)

\* whether show_example_sentence(k) gets to read self.sentence_to_instances
ShowReadsInstances(k) ==
    /\ k < Len(SPSentenceIds)
    /\ InList(english_sentences, k) /\ InList(chinese_sentences, k)
    /\ InList(alignments, k)

ShowExample ==
    /\ prog = SP /\ pc = "done"
    /\ \E k \in 0..Len(se13) :
          LET r == show_example_sentence(k)
          IN  /\ shown' = r.lines
              /\ error' = r.error
              /\ pc' = IF r.error = "none" THEN "shown" ELSE "aborted"
              /\ sentence_to_instances' =
                     IF ShowReadsInstances(k)
                     THEN DefaultDictRead(sentence_to_instances,
                                          SPSentenceKey(SPSentenceIds, k))
                     ELSE sentence_to_instances
    /\ UNCHANGED <<inputs, stores, rest,
                   sense_dict, sent_idx, eng_pos, se13_idx, eng_pos_to_se13_idx,
                   link_idx, projections>>

NextSP ==
    \/ SPLoad
    \/ SPNextSentence
    \/ SPProcessLink
    \/ SPLinksDone
    \/ SPFinish
    \/ ShowExample

Next == NextRP \/ NextSP

(***************************************************************************)
(* Loading the token files and the alignment file.                         *)
(***************************************************************************)
\* run_projection.main: load_alignments, then load_tokens twice
RPLoadFiles ==
    /\ prog = RP /\ pc = "files"
    /\ alignments' = load_alignments(files.alignment)
    /\ english_sentences' = load_tokens(files.english)
    /\ chinese_sentences' = load_tokens(files.target)
    /\ pc' = "loaded"
    /\ UNCHANGED <<inputs, rest, sentence_to_instances, sense_dict, sent_idx, eng_pos,
                   se13_idx, eng_pos_to_se13_idx, link_idx, projections, shown, error>>

\* sense_projection.main: load_alignments, then load_token_files
SPLoadFiles ==
    /\ prog = SP /\ pc = "files"
    /\ LET r == load_alignment_lines(files.alignment, <<>>)
       IN  /\ alignments' = r.value
           /\ error' = r.error
           /\ IF r.error = "none"
              THEN /\ english_sentences' = load_tokens(files.english)
                   /\ chinese_sentences' = load_tokens(files.target)
                   /\ pc' = "loaded"
              ELSE /\ UNCHANGED <<english_sentences, chinese_sentences>>
                   /\ pc' = "aborted"
    /\ UNCHANGED <<inputs, rest, sentence_to_instances, sense_dict, sent_idx, eng_pos,
                   se13_idx, eng_pos_to_se13_idx, link_idx, projections, shown>>

\* AlignmentEvaluator.__init__: the token files first, then the alignment file
EVLoadFiles ==
    /\ prog = EV /\ pc = "files"
    /\ english_sentences' = load_tokens(files.english)
    /\ chinese_sentences' = load_tokens(files.target)
    /\ LET r == load_alignment_lines(files.alignment, <<>>)
       IN  /\ alignments' = r.value
           /\ error' = r.error
           /\ pc' = IF r.error = "none" THEN "loaded" ELSE "aborted"
    /\ UNCHANGED <<inputs, rest, sentence_to_instances, sense_dict, sent_idx, eng_pos,
                   se13_idx, eng_pos_to_se13_idx, link_idx, projections, shown>>

NextFiles == RPLoadFiles \/ SPLoadFiles \/ EVLoadFiles

(***************************************************************************)
(* alignment_quality_eval.py: AlignmentEvaluator                           *)
(*                                                                         *)
(* self.alignments, self.english_sents and self.target_sents are the       *)
(* variables alignments, english_sentences and chinese_sentences.  Every   *)
(* operation prints what it computed: report holds, by operation, the      *)
(* values printed.  A ratio is kept exact as the pair <<num, den>>.        *)
(***************************************************************************)
FracAdd(f, g) == <<f[1] * g[2] + g[1] * f[2], f[2] * g[2]>>

RECURSIVE FracSum(_)
FracSum(fs) == IF fs = <<>> THEN <<0, 1>> ELSE FracAdd(Head(fs), FracSum(Tail(fs)))

\* sum(xs) / len(xs) if xs else 0
FracMean(fs) ==
    IF fs = <<>> THEN <<0, 1>> ELSE <<FracSum(fs)[1], FracSum(fs)[2] * Len(fs)>>

RECURSIVE Sum(_)
Sum(ns) == IF ns = <<>> THEN 0 ELSE Head(ns) + Sum(Tail(ns))

Max(S) == CHOOSE x \in S : \A y \in S : y <= x

\* [len(a) for a in self.alignments]
align_counts == [k \in 1..Len(alignments) |-> Len(alignments[k])]

\* set(i for i, j in aligns) and set(j for i, j in aligns)
SrcSet(aligns) == {aligns[n][1] : n \in DOMAIN aligns}

TgtSet(aligns) == {aligns[n][2] : n \in DOMAIN aligns}

\* the coverage loop from sentence k on
RECURSIVE CoverageFrom(_, _, _)
CoverageFrom(k, english_coverage, target_coverage) ==
    IF k >= Len(alignments)
    THEN [english_coverage |-> english_coverage, target_coverage |-> target_coverage]
    ELSE IF k >= Len(english_sentences) \/ k >= Len(chinese_sentences)
         THEN CoverageFrom(k + 1, english_coverage, target_coverage)
         ELSE LET aligns == At(alignments, k)
                  en_len == Len(At(english_sentences, k))
                  tgt_len == Len(At(chinese_sentences, k))
              IN  IF en_len > 0 /\ tgt_len > 0
                  THEN CoverageFrom(k + 1,
                           Append(english_coverage, <<Cardinality(SrcSet(aligns)), en_len>>),
                           Append(target_coverage, <<Cardinality(TgtSet(aligns)), tgt_len>>))
                  ELSE CoverageFrom(k + 1, english_coverage, target_coverage)

\* what compute_basic_statistics prints when self.alignments is not empty
compute_basic_statistics ==
    LET cov == CoverageFrom(0, <<>>, <<>>)
    IN  [total_sentences |-> Len(alignments),
         total_alignments |-> Sum(align_counts),
         avg_alignments |-> <<Sum(align_counts), Len(alignments)>>,
         no_align |-> Cardinality({k \in DOMAIN alignments : Len(alignments[k]) = 0}),
         min_align |-> Min({align_counts[k] : k \in DOMAIN align_counts}),
         max_align |-> Max({align_counts[k] : k \in DOMAIN align_counts}),
         english_coverage |-> cov.english_coverage,
         target_coverage |-> cov.target_coverage,
         avg_en_coverage |-> FracMean(cov.english_coverage),
         avg_tgt_coverage |-> FracMean(cov.target_coverage)]

\* the percentage of line 70 divides by len(self.alignments)
EVBasicStatistics ==
    /\ prog = EV /\ pc = "stats"
    /\ IF Len(alignments) = 0
       THEN /\ error' = "ZeroDivisionError"
            /\ pc' = "aborted"
            /\ UNCHANGED report
       ELSE /\ report' = Put(report, "basic_statistics", compute_basic_statistics)
            /\ pc' = "patterns"
            /\ UNCHANGED error
    /\ UNCHANGED <<inputs, stores, previous, sentence_to_instances, sense_dict, sent_idx,
                   eng_pos, se13_idx, eng_pos_to_se13_idx, link_idx, projections, shown>>

\* Counter(i for i, j in aligns)[i] and Counter(j for i, j in aligns)[j]
SrcCount(aligns, i) == Cardinality({n \in DOMAIN aligns : aligns[n][1] = i})

TgtCount(aligns, j) == Cardinality({n \in DOMAIN aligns : aligns[n][2] = j})

ClassifySwapped(src_count, tgt_count) ==
    IF src_count = 1 /\ tgt_count = 1 THEN "one_to_one"
    ELSE IF src_count = 1 /\ tgt_count > 1 THEN "one_to_many_src"
    ELSE IF src_count > 1 /\ tgt_count = 1 THEN "many_to_one_tgt"
    ELSE "many_to_many"

\* the if / elif chain of analyze_alignment_patterns
Classify(src_count, tgt_count) ==
    IF src_count = 1 /\ tgt_count = 1 THEN "one_to_one"
    ELSE IF src_count = 1 /\ tgt_count > 1 THEN "many_to_one_tgt"
    ELSE IF src_count > 1 /\ tgt_count = 1 THEN "one_to_many_src"
    ELSE "many_to_many"

Buckets == {"one_to_one", "one_to_many_src", "many_to_one_tgt", "many_to_many"}

NoLinksCounted == [b \in Buckets |-> 0]

BumpOnce(counters, bucket) == [counters EXCEPT ![bucket] = 1]

\* counter += 1
Bump(counters, bucket) == [counters EXCEPT ![bucket] = @ + 1]

\* for i, j in aligns: from the n-th link on
RECURSIVE CountLinks(_, _, _)
CountLinks(aligns, n, counters) ==
    IF n > Len(aligns) THEN counters
    ELSE CountLinks(aligns, n + 1,
             Bump(counters, Classify(SrcCount(aligns, aligns[n][1]),
                                     TgtCount(aligns, aligns[n][2]))))

\* for aligns in self.alignments
RECURSIVE CountSentences(_, _)
CountSentences(sents, counters) ==
    IF sents = <<>> THEN counters
    ELSE CountSentences(Tail(sents),
             IF Head(sents) = <<>> THEN counters
             ELSE CountLinks(Head(sents), 1, counters))

analyze_alignment_patterns ==
    LET counters == CountSentences(alignments, NoLinksCounted)
    IN  [b \in Buckets \cup {"total"} |->
            IF b = "total"
            THEN counters["one_to_one"] + counters["one_to_many_src"]
                 + counters["many_to_one_tgt"] + counters["many_to_many"]
            ELSE counters[b]]

EVPatterns ==
    /\ prog = EV /\ pc = "patterns"
    /\ report' = Put(report, "alignment_patterns", analyze_alignment_patterns)
    /\ pc' = "errors"
    /\ UNCHANGED <<inputs, stores, previous, sentence_to_instances, sense_dict, sent_idx,
                   eng_pos, se13_idx, eng_pos_to_se13_idx, link_idx, projections, shown,
                   error>>

function_words ==
    {"the", "a", "an", "is", "are", "was", "were", "of", "to", "in", "for", "on",
     "with", "at", "by"}

\* the positions of the function words of sentence k, and the aligned ones
FunctionWordPositions(k) ==
    {i \in 0..(Len(At(english_sentences, k)) - 1) :
        Lower(At(At(english_sentences, k), i)) \in function_words}

AlignedFunctionWordPositions(k) ==
    {i \in FunctionWordPositions(k) : i \in SrcSet(At(alignments, k))}

\* the sentences the function-word loop does not skip
FunctionWordSentences ==
    {k \in 0..(Len(alignments) - 1) : k < Len(english_sentences)}

RECURSIVE SumOver(_, _)
SumOver(S, f) ==
    IF S = {} THEN 0
    ELSE LET x == CHOOSE y \in S : TRUE IN f[x] + SumOver(S \ {x}, f)

\* the largest number of distinct links of one source position
MaxSrcDistinct(aligns) ==
    Max({Cardinality({aligns[n] : n \in {m \in DOMAIN aligns : aligns[m][1] = i}}) :
            i \in SrcSet(aligns)})

\* max(src_counts.values()) and max(tgt_counts.values()) of a sentence with links
MaxSrcCount(aligns) == Max({SrcCount(aligns, i) : i \in SrcSet(aligns)})

MaxTgtCount(aligns) == Max({TgtCount(aligns, j) : j \in TgtSet(aligns)})

\* max_chain_src / max_chain_tgt after the sentences from the n-th on
RECURSIVE max_chain_src(_, _)
max_chain_src(n, so_far) ==
    IF n > Len(alignments) THEN so_far
    ELSE max_chain_src(n + 1,
             IF alignments[n] # <<>> THEN Max({so_far, MaxSrcCount(alignments[n])})
             ELSE so_far)

RECURSIVE max_chain_tgt(_, _)
max_chain_tgt(n, so_far) ==
    IF n > Len(alignments) THEN so_far
    ELSE max_chain_tgt(n + 1,
             IF alignments[n] # <<>> THEN Max({so_far, MaxTgtCount(alignments[n])})
             ELSE so_far)

CrossingLoose(link1, link2) == link1[1] <= link2[1] /\ link1[2] > link2[2]

\* if i1 < i2 and j1 > j2
Crossing(link1, link2) == link1[1] < link2[1] /\ link1[2] > link2[2]

NextLinkOnly(aligns, n) == IF n < Len(aligns) THEN <<aligns[n + 1]>> ELSE <<>>

\* the list the inner loop goes through for the n-th link: for (i2, j2) in aligns
InnerLinks(aligns, n) == aligns

\* the inner loop: is some link of the list crossed by link1
RECURSIVE CrossesOneOf(_, _)
CrossesOneOf(link1, links) ==
    IF links = <<>> THEN FALSE
    ELSE IF Crossing(link1, Head(links)) THEN TRUE
    ELSE CrossesOneOf(link1, Tail(links))

\* the outer loop from the n-th link on: has_crossing when the loops end
RECURSIVE has_crossing_from(_, _)
has_crossing_from(aligns, n) ==
    IF n > Len(aligns) THEN FALSE
    ELSE IF CrossesOneOf(aligns[n], InnerLinks(aligns, n)) THEN TRUE
    ELSE has_crossing_from(aligns, n + 1)

has_crossing(aligns) == has_crossing_from(aligns, 1)

\* the sentences the crossing loop does not skip
CrossingSentences == {k \in DOMAIN alignments : ~(Len(alignments[k]) < 2)}

identify_typical_errors ==
    [function_word_total |->
         SumOver(FunctionWordSentences,
                 [k \in FunctionWordSentences |-> Cardinality(FunctionWordPositions(k))]),
     function_word_aligns |->
         SumOver(FunctionWordSentences,
                 [k \in FunctionWordSentences |->
                     Cardinality(AlignedFunctionWordPositions(k))]),
     max_chain_src |-> max_chain_src(1, 0),
     max_chain_tgt |-> max_chain_tgt(1, 0),
     total_sentences |-> Cardinality(CrossingSentences),
     crossing_count |->
         Cardinality({k \in CrossingSentences : has_crossing(alignments[k])})]

EVErrors ==
    /\ prog = EV /\ pc = "errors"
    /\ report' = Put(report, "typical_errors", identify_typical_errors)
    /\ pc' = "unaligned"
    /\ UNCHANGED <<inputs, stores, previous, sentence_to_instances, sense_dict, sent_idx,
                   eng_pos, se13_idx, eng_pos_to_se13_idx, link_idx, projections, shown,
                   error>>

\* [i for i in range(len(tokens)) if i not in aligned]
Unaligned(tokens, aligned) ==
    SortedList({i \in 0..(Len(tokens) - 1) : i \notin aligned})

\* the loop of find_unaligned_tokens from sentence k on
RECURSIVE unaligned_examples(_, _)
unaligned_examples(k, examples) ==
    IF k >= Len(alignments) THEN examples
    ELSE IF k >= Len(english_sentences) \/ k >= Len(chinese_sentences)
         THEN unaligned_examples(k + 1, examples)
         ELSE LET en_tokens == At(english_sentences, k)
                  tgt_tokens == At(chinese_sentences, k)
                  en_unaligned == Unaligned(en_tokens, SrcSet(At(alignments, k)))
                  tgt_unaligned == Unaligned(tgt_tokens, TgtSet(At(alignments, k)))
              IN  IF en_unaligned # <<>> \/ tgt_unaligned # <<>>
                  THEN unaligned_examples(k + 1,
                           Append(examples,
                               [sent_idx |-> k,
                                en_unaligned |-> en_unaligned,
                                tgt_unaligned |-> tgt_unaligned,
                                en_unaligned_words |->
                                    [n \in 1..Len(en_unaligned) |->
                                        At(en_tokens, en_unaligned[n])],
                                tgt_unaligned_words |->
                                    [n \in 1..Len(tgt_unaligned) |->
                                        At(tgt_tokens, tgt_unaligned[n])]]))
                  ELSE unaligned_examples(k + 1, examples)

\* the examples are printed in the order random.sample draws them; with the
\* default num_examples every one of them is printed
EVUnaligned ==
    /\ prog = EV /\ pc = "unaligned"
    /\ report' = Put(report, "unaligned_tokens", unaligned_examples(0, <<>>))
    /\ pc' = "samples"
    /\ UNCHANGED <<inputs, stores, previous, sentence_to_instances, sense_dict, sent_idx,
                   eng_pos, se13_idx, eng_pos_to_se13_idx, link_idx, projections, shown,
                   error>>

\* the lines show_manual_inspection_samples prints for sentence idx, one per
\* link: [sent_idx, en_idx, en_word, tgt_idx, tgt_word]
SampleLines(idx) ==
    LET en_tokens == At(english_sentences, idx)
        tgt_tokens == At(chinese_sentences, idx)
        aligns == At(alignments, idx)
    IN  [n \in 1..Len(aligns) |->
            [sent_idx |-> idx,
             en_idx |-> aligns[n][1],
             en_word |-> IF aligns[n][1] < Len(en_tokens)
                         THEN At(en_tokens, aligns[n][1]) ELSE "???",
             tgt_idx |-> aligns[n][2],
             tgt_word |-> IF aligns[n][2] < Len(tgt_tokens)
                          THEN At(tgt_tokens, aligns[n][2]) ELSE "???"]]

\* the loop over sample_indices
RECURSIVE inspection_samples(_, _)
inspection_samples(sample_indices, printed) ==
    IF sample_indices = <<>> THEN printed
    ELSE LET idx == Head(sample_indices)
         IN  IF idx >= Len(english_sentences) \/ idx >= Len(chinese_sentences)
             THEN inspection_samples(Tail(sample_indices), printed)
             ELSE inspection_samples(Tail(sample_indices),
                      Append(printed, [sent_idx |-> idx, lines |-> SampleLines(idx)]))

\* the orders random.sample can draw all of 0..n-1 in
SampleOrders(n) ==
    {s \in [1..n -> 0..(n - 1)] : \A i, j \in 1..n : i # j => s[i] # s[j]}

\* with the default num_samples every sentence is drawn, in an order the
\* seeded generator decides
EVSamples ==
    /\ prog = EV /\ pc = "samples"
    /\ \E sample_indices \in SampleOrders(Len(alignments)) :
           report' = Put(report, "inspection_samples",
                         inspection_samples(sample_indices, <<>>))
    /\ pc' = "done"
    /\ UNCHANGED <<inputs, stores, previous, sentence_to_instances, sense_dict, sent_idx,
                   eng_pos, se13_idx, eng_pos_to_se13_idx, link_idx, projections, shown,
                   error>>

NextEV ==
    \/ EVBasicStatistics
    \/ EVPatterns
    \/ EVErrors
    \/ EVUnaligned
    \/ EVSamples

(***************************************************************************)
(* compare_methods: the alignments of a second method, read from           *)
(* files.other, against self.alignments.                                   *)
(***************************************************************************)
\* set(self.alignments[idx]), and the align_set of a line of the other file
LinkSet(aligns) == {aligns[n] : n \in DOMAIN aligns}

\* the loop over the lines of the other alignment file: other_aligns when
\* the loop ended and the exception that ended it
RECURSIVE load_other_aligns(_, _)
load_other_aligns(lines, other_aligns) ==
    IF lines = <<>> THEN [value |-> other_aligns, error |-> "none"]
    ELSE LET r == parse_alignment_line(Head(lines))
         IN  IF r.error # "none" THEN [value |-> other_aligns, error |-> r.error]
             ELSE load_other_aligns(Tail(lines), Append(other_aligns, LinkSet(r.value)))

EitherEmpty(set1, set2) == Cardinality(set1) = 0 \/ Cardinality(set2) = 0

\* if len(set1) == 0 and len(set2) == 0: continue
BothEmpty(set1, set2) == Cardinality(set1) = 0 /\ Cardinality(set2) = 0

\* intersection = len(set1 & set2)
IntersectionSize(set1, set2) == Cardinality(set1 \cap set2)

UnionSizeSum(set1, set2) == Cardinality(set1) + Cardinality(set2)

\* union = len(set1 | set2)
UnionSize(set1, set2) == Cardinality(set1 \cup set2)

\* the loop over range(min(len(self.alignments), len(other_aligns))) from
\* idx on: the list agreement, each score the exact ratio <<intersection, union>>
RECURSIVE agreement_from(_, _, _)
agreement_from(idx, other_aligns, agreement) ==
    IF idx >= Min({Len(alignments), Len(other_aligns)}) THEN agreement
    ELSE LET set1 == LinkSet(At(alignments, idx))
             set2 == At(other_aligns, idx)
         IN  IF BothEmpty(set1, set2)
             THEN agreement_from(idx + 1, other_aligns, agreement)
             ELSE IF UnionSize(set1, set2) > 0
                  THEN agreement_from(idx + 1, other_aligns,
                           Append(agreement,
                                  <<IntersectionSize(set1, set2), UnionSize(set1, set2)>>))
                  ELSE agreement_from(idx + 1, other_aligns, agreement)

avg_over_sentences(agreement) ==
    <<FracSum(agreement)[1], FracSum(agreement)[2] * Len(alignments)>>

\* avg_agreement = sum(agreement) / len(agreement)
avg_agreement(agreement) ==
    <<FracSum(agreement)[1], FracSum(agreement)[2] * Len(agreement)>>

\* what compare_methods computed: the scores, and the average it prints
\* (<<>> when the list of scores is empty and nothing is printed)
compare_methods(other_aligns) ==
    LET agreement == agreement_from(0, other_aligns, <<>>)
    IN  [other_aligns |-> other_aligns,
         agreement |-> agreement,
         avg_agreement |-> IF agreement # <<>> THEN avg_agreement(agreement) ELSE <<>>]

\* main: if args.compare: evaluator.compare_methods(args.compare, ...)
EVCompare ==
    /\ prog = EV /\ pc = "done"
    /\ "other" \in DOMAIN files
    /\ LET r == load_other_aligns(files.other, <<>>)
       IN  IF r.error # "none"
           THEN /\ error' = r.error
                /\ pc' = "aborted"
                /\ UNCHANGED report
           ELSE /\ report' = Put(report, "compare_methods", compare_methods(r.value))
                /\ pc' = "compared"
                /\ UNCHANGED error
    /\ UNCHANGED <<inputs, stores, previous, sentence_to_instances, sense_dict, sent_idx,
                   eng_pos, se13_idx, eng_pos_to_se13_idx, link_idx, projections, shown>>

NextCompare == EVSamples \/ EVCompare

(***************************************************************************)
(* Inputs.                                                                 *)
(***************************************************************************)
Progs == {RP, SP}
AllProgs == {RP, SP, EV}
InstanceIds == {"I1", "I2"}
SourceTexts == {"a", "b"}
ReconTexts == {"a", "A", "b"}
TargetTexts == {"x", "X"}

Rows(texts, instances) == [raw_text : texts, instance_id : instances]

\* a corpus of one sentence
One(S) == {<<s>> : s \in S}

Links(maxSrc, maxTgt) == (0..maxSrc) \X (0..maxTgt)

\* the decimal digits of a natural number
RECURSIVE DigitsOf(_)
DigitsOf(n) ==
    IF n < 10 THEN <<Digits[n + 1]>>
    ELSE Append(DigitsOf(n \div 10), Digits[(n % 10) + 1])

\* a link as the token "src-tgt"
PairToken(link) == DigitsOf(link[1]) \o <<"-">> \o DigitsOf(link[2])

\* line k of an alignment file in the format "sent_id TAB alignment_pairs";
\* without pairs, strip() leaves the sent_id alone
AlignmentLine(k, links) ==
    IF links = <<>> THEN << <<DigitsOf(k)>> >>
    ELSE << <<DigitsOf(k)>>, [i \in 1..Len(links) |-> PairToken(links[i])] >>

\* run_align.write_alignments_to_file: str(alignment) on every line
write_alignments_to_file(aligns) == [k \in 1..Len(aligns) |-> <<aligns[k]>>]

\* the files a program finds when its stores hold these values
FilesOf(p, aligns, english, target) ==
    [alignment |-> IF p = RP THEN write_alignments_to_file(aligns)
                   ELSE [k \in 1..Len(aligns) |-> AlignmentLine(k - 1, aligns[k])],
     english |-> english,
     target |-> target]

\* The stores as loaded from the files.
\* sources: the pairs <<annotation sentences, aligner-source sentences>>
InitWith(progs, keyFiles, sources, tgts, aligns) ==
    /\ prog \in progs
    /\ key_lines \in keyFiles
    /\ \E pair \in sources : se13 = pair[1] /\ english_sentences = pair[2]
    /\ chinese_sentences \in tgts
    /\ alignments \in aligns
    /\ files = FilesOf(prog, alignments, english_sentences, chinese_sentences)
    /\ sentence_to_instances = IF prog = SP THEN load_token_mappings(se13) ELSE EmptyDict
    /\ previous = <<>>
    /\ report = EmptyDict
    /\ pc = "load"
    /\ sense_dict = EmptyDict
    /\ sent_idx = 0
    /\ eng_pos = 0
    /\ se13_idx = 0
    /\ eng_pos_to_se13_idx = EmptyDict
    /\ link_idx = 0
    /\ projections = <<>>
    /\ shown = <<>>
    /\ error = "none"

\* Projection of one sentence by either program.  A loaded token sentence is
\* never empty (blank lines are dropped by the loaders) and a sentence of the
\* annotation table has at least one row.
ProjKeyFiles ==
    { << <<"I1", "S1">>, <<"I2", "S2">> >>,
      << <<"I1", "S1">>, <<"I2", "S1", "S2">> >> }

Init ==
    InitWith(Progs, ProjKeyFiles,
             One(SeqsFromTo(Rows(SourceTexts, InstanceIds \cup {NoInstance}), 1, MaxSe13Len))
                 \X One(SeqsFromTo(SourceTexts, 1, MaxEngLen)),
             One(SeqsFromTo(TargetTexts, 1, MaxTgtLen)),
             One(SeqsFromTo(Links(MaxSe13Len - 1, MaxTgtLen), 0, MaxLinks)))

Spec == Init /\ [][Next]_vars

(***************************************************************************)
(* The reconciliation pass of run_projection.py on its own: sentences of   *)
(* up to MaxReconLen tokens over texts that differ in case, one link.      *)
(***************************************************************************)
InitRecon ==
    InitWith({RP}, { << <<"I1", "S1">> >> },
             One(SeqsFromTo(Rows(ReconTexts, {"I1"}), 1, MaxReconLen))
                 \X One(SeqsFromTo(ReconTexts, 1, MaxReconLen)),
             One({<<"x">>}),
             One({<< <<0, 0>> >>}))

SpecRecon == InitRecon /\ [][NextRP]_vars

(***************************************************************************)
(* The key file loaders on their own: every key file of up to MaxKeyLines  *)
(* lines, a line being blank or an instance_id followed by 0..2 labels;    *)
(* one fixed sentence whose two rows each carry an instance.               *)
(***************************************************************************)
SenseLabels == {"S1", "S2"}

\* the label lists of a key line: no label, one, or two different ones
LabelLists ==
    {l \in SeqsFromTo(SenseLabels, 0, 2) : \A i, j \in 1..Len(l) : i # j => l[i] # l[j]}

KeyLineShapes ==
    {<<>>} \cup { <<id>> \o labels : id \in InstanceIds, labels \in LabelLists }

InitKey ==
    InitWith(Progs, SeqsFromTo(KeyLineShapes, 0, MaxKeyLines),
             One({ << [raw_text |-> "b", instance_id |-> "I2"],
                      [raw_text |-> "a", instance_id |-> "I1"] >> })
                 \X One({<<"a", "b">>}),
             One({<<"x", "X">>}),
             One({<< <<0, 0>>, <<1, 1>> >>}))

SpecKey == InitKey /\ [][Next]_vars

(***************************************************************************)
(* The link loops of both programs on their own: every alignment of up to  *)
(* MaxLinks links and every target sentence of up to MaxTgtLen tokens,     *)
(* over a few sentence pairs: both tokenizations equal; an annotation row  *)
(* the aligner does not have; one instance mentioned twice; an aligner     *)
(* token the annotation does not have.                                     *)
(***************************************************************************)
Row(text, id) == [raw_text |-> text, instance_id |-> id]

LinkSources ==
    { << << <<Row("a", "I1"), Row("b", "I2")>> >>, << <<"a", "b">> >> >>,
      << << <<Row("b", NoInstance), Row("a", "I1")>> >>, << <<"a">> >> >>,
      << << <<Row("a", "I1"), Row("a", "I1")>> >>, << <<"a", "a">> >> >>,
      << << <<Row("a", "I2"), Row("b", "I1")>> >>, << <<"b", "a">> >> >> }

InitLinks ==
    InitWith(Progs, ProjKeyFiles, LinkSources,
             One(SeqsFromTo(TargetTexts, 1, MaxTgtLen)),
             One(SeqsFromTo(Links(MaxSe13Len - 1, MaxTgtLen), 0, MaxLinks)))

SpecLinks == InitLinks /\ [][Next]_vars

(***************************************************************************)
(* Reference definitions used by the properties.                           *)
(***************************************************************************)
\* annotation indices >= c whose case-folded text equals that of aligner token p
FoldedMatches(eng, rows, p, c) ==
    {j \in c..(Len(rows) - 1) : Lower(At(rows, j).raw_text) = Lower(At(eng, p))}

\* the greedy single pass: cursor c, position p, map m built so far
RECURSIVE GreedyMapFrom(_, _, _, _, _)
GreedyMapFrom(eng, rows, p, c, m) ==
    IF p >= Len(eng) THEN m
    ELSE LET M == FoldedMatches(eng, rows, p, c)
         IN  IF M = {}
             THEN GreedyMapFrom(eng, rows, p + 1, Len(rows), m)
             ELSE GreedyMapFrom(eng, rows, p + 1, Min(M) + 1, Put(m, p, Min(M)))

GreedyMap(eng, rows) == GreedyMapFrom(eng, rows, 0, 0, EmptyDict)

\* the rows the running program pairs with sentence index k
RowsOf(k) == IF prog = RP THEN At(se13, k) ELSE At(se13, At(SPSentenceIds, k))

\* number of sentences the running program loops over
NumSentences == IF prog = RP THEN Len(se13) ELSE Len(SPSentenceIds)

SkippedSentence(k) ==
    k >= Len(alignments) \/ k >= Len(english_sentences) \/ k >= Len(chinese_sentences)

\* the link being processed by a step taken at pc = "links"
CurLink == At(CurAlignment, link_idx)

\* the instance the running program resolves the current link to
ResolvedInstance ==
    IF prog = RP
    THEN At(CurSe13, eng_pos_to_se13_idx[CurLink[1]]).instance_id
    ELSE SPCurInstances[CurLink[1]]

\* a step that processes the current link
LinkStep == pc = "links" /\ link_idx' = link_idx + 1

\* a step that processes the current link and emits a record for it
EmitStep == LinkStep /\ Len(projections') = Len(projections) + 1

Last(s) == s[Len(s)]

(***************************************************************************)
(* C1  The reconciliation map eng_pos_to_se13_idx is strictly increasing   *)
(* and injective: for mapped aligner positions p1 < p2, map(p1) < map(p2), *)
(* and no annotation position is the image of two aligner positions.       *)
(***************************************************************************)
C1_MapStrictlyIncreasing ==
    prog = RP =>
        \A p1, p2 \in DOMAIN eng_pos_to_se13_idx :
            /\ p1 < p2 => eng_pos_to_se13_idx[p1] < eng_pos_to_se13_idx[p2]
            /\ p1 # p2 => eng_pos_to_se13_idx[p1] # eng_pos_to_se13_idx[p2]

\* two positions are mapped and an annotation token was skipped between them
C1_Witness ==
    /\ prog = RP /\ pc = "links"
    /\ \E p1, p2 \in DOMAIN eng_pos_to_se13_idx :
          p2 = p1 + 1 /\ eng_pos_to_se13_idx[p2] > eng_pos_to_se13_idx[p1] + 1

(***************************************************************************)
(* C2  The reconciliation map is the greedy single pass: the cursor starts *)
(* at 0; for each aligner position p in increasing order map[p] is the     *)
(* least annotation index at or after the cursor whose case-folded text    *)
(* equals that of token p, and the cursor moves just past it; when there   *)
(* is none p is unmapped (and the cursor is left at the end).  Every       *)
(* mapped pair has equal case-folded text.                                 *)
(***************************************************************************)
\* the cursor with which the scan for position p started, read off the map
CursorBefore(p) ==
    IF p = 0 THEN 0
    ELSE IF (p - 1) \in DOMAIN eng_pos_to_se13_idx
         THEN eng_pos_to_se13_idx[p - 1] + 1
         ELSE Len(CurSe13)

C2_MapIsGreedyPass ==
    (prog = RP /\ pc \in {"recon", "links"}) =>
        /\ DOMAIN eng_pos_to_se13_idx \subseteq 0..(eng_pos - 1)
        /\ \A p \in 0..(eng_pos - 1) :
              LET M == FoldedMatches(CurEnglish, CurSe13, p, CursorBefore(p))
              IN  IF M = {}
                  THEN p \notin DOMAIN eng_pos_to_se13_idx
                  ELSE /\ p \in DOMAIN eng_pos_to_se13_idx
                       /\ eng_pos_to_se13_idx[p] = Min(M)
        /\ \A p \in DOMAIN eng_pos_to_se13_idx :
              Lower(At(CurSe13, eng_pos_to_se13_idx[p]).raw_text) = Lower(At(CurEnglish, p))
        /\ pc = "links" => eng_pos_to_se13_idx = GreedyMap(CurEnglish, CurSe13)

\* a pass that mapped a token whose text differs in case, after skipping an
\* annotation token, and left a later position unmapped
C2_Witness ==
    /\ prog = RP /\ pc = "links"
    /\ \E p \in DOMAIN eng_pos_to_se13_idx :
          /\ At(CurSe13, eng_pos_to_se13_idx[p]).raw_text # At(CurEnglish, p)
          /\ eng_pos_to_se13_idx[p] > CursorBefore(p)
    /\ \E p \in 0..(Len(CurEnglish) - 1) : p \notin DOMAIN eng_pos_to_se13_idx

(***************************************************************************)
(* C3  Projection emits no record for an instance_id that occurs more than *)
(* once among the annotation positions of its sentence: every step that    *)
(* emits a record resolved its link to an instance mentioned exactly once. *)
(***************************************************************************)
C3_NoRecordForDuplicateMention ==
    [][EmitStep => InstanceCount(RowsOf(sent_idx), ResolvedInstance) = 1]_vars

(***************************************************************************)
(* C4  An instance_id that the key file gives on two separate lines, each  *)
(* with one label and the two labels different, is absent from the sense   *)
(* map after loading.                                                      *)
(***************************************************************************)
\* the labels the key file gives instance id on lines that hold one label
SingleLabels(id) ==
    {key_lines[i][2] : i \in {j \in 1..Len(key_lines) :
                                 Len(key_lines[j]) = 2 /\ key_lines[j][1] = id}}

C4_ConflictingLinesExcluded ==
    pc # "load" =>
        \A id \in InstanceIds :
            Cardinality(SingleLabels(id)) >= 2 => id \notin DOMAIN sense_dict

(***************************************************************************)
(* C5  After loading, an instance_id that has a key line with more than    *)
(* one label is absent from the sense map, whatever other lines the file   *)
(* holds, and so is an instance_id to which the file gives no label.       *)
(***************************************************************************)
LinesOf(id) ==
    {i \in 1..Len(key_lines) : Len(key_lines[i]) >= 1 /\ key_lines[i][1] = id}

HasMultiLabelLine(id) == \E i \in LinesOf(id) : Len(key_lines[i]) > 2

HasNoLabel(id) == \A i \in LinesOf(id) : Len(key_lines[i]) = 1

C5_AmbiguousLineExcluded ==
    pc # "load" =>
        \A id \in InstanceIds :
            (HasMultiLabelLine(id) \/ HasNoLabel(id)) => id \notin DOMAIN sense_dict

(***************************************************************************)
(* C6  Every emitted record comes from a link whose target position tgt    *)
(* satisfies 0 <= tgt < length of the sentence's target tokens; a link     *)
(* whose tgt is out of range is skipped: it emits nothing and the loop     *)
(* goes on to the next link.                                               *)
(***************************************************************************)
C6_TargetInBounds ==
    [][LinkStep =>
          /\ EmitStep => (0 <= CurLink[2] /\ CurLink[2] < Len(CurChinese))
          /\ CurLink[2] >= Len(CurChinese) =>
                (projections' = projections /\ pc' = "links" /\ error' = "none")]_vars

\* one link with an out-of-range target was skipped and the next one emitted
C6_Witness ==
    /\ pc = "links" /\ link_idx = 2
    /\ At(CurAlignment, 0)[2] >= Len(CurChinese)
    /\ At(CurAlignment, 1)[2] < Len(CurChinese)
    /\ Len(projections) = 1

(***************************************************************************)
(* C7  For every link (src, tgt) projection looks up the instance at       *)
(* annotation position map(src), map being the sentence's reconciliation   *)
(* map between the aligner-source tokens and the annotation tokens; a link *)
(* whose src is not in the map's domain emits no record.                   *)
(***************************************************************************)
C7_InstanceThroughReconciliationMap ==
    [][EmitStep =>
          LET m == GreedyMap(CurEnglish, RowsOf(sent_idx))
          IN  /\ CurLink[1] \in DOMAIN m
              /\ ResolvedInstance = At(RowsOf(sent_idx), m[CurLink[1]]).instance_id]_vars

(***************************************************************************)
(* C8  Every emitted record carries the case-folded text of the target     *)
(* token at position tgt of the link that produced it.                     *)
(***************************************************************************)
C8_TargetTextCaseFolded ==
    [][EmitStep => Last(projections')[2] = Lower(At(CurChinese, CurLink[2]))]_vars

(***************************************************************************)
(* C9  Projection emits exactly one record per link that survives the      *)
(* filters, in the stored order of the links and without deduplication:    *)
(* at every point the output is the list of the records of the surviving   *)
(* links processed so far, repeated pairs included.                        *)
(***************************************************************************)
\* whether the running program lets the link through, and the record it emits
Survives(link, k) ==
    IF prog = RP
    THEN LET m == GreedyMap(At(english_sentences, k), RowsOf(k))
         IN  /\ link[1] < Len(At(english_sentences, k))
             /\ link[2] < Len(At(chinese_sentences, k))
             /\ link[1] \in DOMAIN m
             /\ LET id == At(RowsOf(k), m[link[1]]).instance_id
                IN  /\ id # NoInstance
                    /\ id \in DOMAIN sense_dict
                    /\ InstanceCount(RowsOf(k), id) = 1
    ELSE LET ti == token_to_instance(RowsOf(k))
         IN  /\ link[1] \in DOMAIN ti
             /\ ti[link[1]] \in DOMAIN sense_dict
             /\ link[2] < Len(At(chinese_sentences, k))

RecordOf(link, k) ==
    IF prog = RP
    THEN <<sense_dict[At(RowsOf(k),
                GreedyMap(At(english_sentences, k), RowsOf(k))[link[1]]).instance_id],
           At(At(chinese_sentences, k), link[2])>>
    ELSE <<sense_dict[token_to_instance(RowsOf(k))[link[1]]],
           Lower(At(At(chinese_sentences, k), link[2]))>>

RECURSIVE RecordsOf(_, _)
RecordsOf(links, k) ==
    IF links = <<>> THEN <<>>
    ELSE (IF Survives(Head(links), k) THEN <<RecordOf(Head(links), k)>> ELSE <<>>)
         \o RecordsOf(Tail(links), k)

\* the records of the sentences before sentence n
RECURSIVE RecordsBefore(_)
RecordsBefore(n) ==
    IF n = 0 THEN <<>>
    ELSE RecordsBefore(n - 1)
         \o (IF SkippedSentence(n - 1) THEN <<>>
             ELSE RecordsOf(At(alignments, n - 1), n - 1))

C9_OneRecordPerSurvivingLink ==
    /\ pc = "links" =>
          projections = RecordsBefore(sent_idx)
                        \o RecordsOf(SubSeq(CurAlignment, 1, link_idx), sent_idx)
    /\ pc \in {"sentence", "done", "shown"} =>
          projections = RecordsBefore(sent_idx)

\* two identical links both survived: the same pair is in the output twice
C9_Witness ==
    /\ pc = "done"
    /\ Len(At(alignments, 0)) = 2
    /\ At(At(alignments, 0), 0) = At(At(alignments, 0), 1)
    /\ Len(projections) = 2
    /\ projections[1] = projections[2]

(***************************************************************************)
(* C10  A link whose source position is >= the length of the sentence's    *)
(* aligner-source tokens, or whose target position is >= the length of its *)
(* target tokens, is never acted upon: projection emits no record for it,  *)
(* the example display prints no projection for it, and no step raises an  *)
(* out-of-bounds error.                                                    *)
(***************************************************************************)
LinkOutOfRange(link, k) ==
    \/ link[1] >= Len(At(english_sentences, k))
    \/ link[2] >= Len(At(chinese_sentences, k))

C10_OutOfRangeLinkNeverActedUpon ==
    [][/\ (LinkStep /\ LinkOutOfRange(CurLink, sent_idx)) => projections' = projections
       /\ error' = "none"
       /\ \A i \in 1..Len(shown') :
             ~LinkOutOfRange(<<shown'[i].en_idx, shown'[i].tgt_idx>>, shown'[i].sent_idx)]_vars

(***************************************************************************)
(* The token files, the alignment file and the stores loaded from them.    *)
(***************************************************************************)
\* where the stores are given, they are what the loaders make of the files
StoresLoadedFromFiles ==
    pc \notin {"files", "aborted"} =>
        /\ load_tokens(files.english) = english_sentences
        /\ load_tokens(files.target) = chinese_sentences
        /\ IF prog = RP
           THEN load_alignments(files.alignment) = alignments
           ELSE load_alignment_lines(files.alignment, <<>>)
                    = [value |-> alignments, error |-> "none"]

(***************************************************************************)
(* The loaders on their own.  Either the alignment file holds one line     *)
(* whose payload holds one token of up to MaxTokenLen characters over      *)
(* TokenChars, alone or next to the well-formed token "1-0"; or the three  *)
(* files hold up to MaxFileLines lines each, blank lines among them.       *)
(***************************************************************************)
TokenChars == {"0", "1", "-", "a"}

PairTokens == SeqsFromTo(TokenChars, 1, MaxTokenLen)

GoodPair == PairToken(<<1, 0>>)

Payloads == UNION { { <<t>>, <<t, GoodPair>>, <<GoodPair, t>> } : t \in PairTokens }

ParseFiles ==
    { [alignment |-> << << <<DigitsOf(0)>>, payload >> >>,
       english |-> << <<"a", "b">> >>,
       target |-> << <<"x">> >>] : payload \in Payloads }

\* the lines an alignment file is made of, for the line at index k
AlignmentLineKinds == {"blank", "none", "one", "two", "fields"}

AlignmentLineOf(k, kind) ==
    CASE kind = "blank" -> <<>>
      [] kind = "none" -> AlignmentLine(k, <<>>)
      [] kind = "one" -> AlignmentLine(k, << <<0, 0>> >>)
      [] kind = "two" -> AlignmentLine(k, << <<1, 0>>, <<0, 1>> >>)
      [] kind = "fields" -> AlignmentLine(k, << <<0, 0>> >>) \o << <<PairToken(<<1, 1>>)>> >>

AlignmentFiles ==
    { [k \in 1..Len(kinds) |-> AlignmentLineOf(k - 1, kinds[k])] :
          kinds \in SeqsFromTo(AlignmentLineKinds, 0, MaxFileLines) }

\* the lines of an alignment file of run_projection.py: blank, "[]",
\* "[(0, 0)]" or "[(1, 0), (0, 1)]"
LiteralLines == { <<>>, << <<>> >>, << << <<0, 0>> >> >>, << << <<1, 0>>, <<0, 1>> >> >> }

LiteralFiles == SeqsFromTo(LiteralLines, 0, MaxFileLines)

EnglishFiles == SeqsFromTo({ <<>>, <<"a">>, <<"a", "b">> }, 0, MaxFileLines)

TargetFiles == SeqsFromTo({ <<>>, <<"x">> }, 0, MaxFileLines)

LineFiles(p) ==
    [alignment : IF p = RP THEN LiteralFiles ELSE AlignmentFiles,
     english : EnglishFiles,
     target : TargetFiles]

InitFiles ==
    /\ prog \in AllProgs
    /\ files \in (IF prog = RP THEN {} ELSE ParseFiles) \cup LineFiles(prog)
    /\ key_lines = <<>>
    /\ se13 = <<>>
    /\ alignments = <<>>
    /\ english_sentences = <<>>
    /\ chinese_sentences = <<>>
    /\ sentence_to_instances = EmptyDict
    /\ previous = <<>>
    /\ report = EmptyDict
    /\ pc = "files"
    /\ sense_dict = EmptyDict
    /\ sent_idx = 0
    /\ eng_pos = 0
    /\ se13_idx = 0
    /\ eng_pos_to_se13_idx = EmptyDict
    /\ link_idx = 0
    /\ projections = <<>>
    /\ shown = <<>>
    /\ error = "none"

SpecFiles == InitFiles /\ [][NextFiles]_vars

\* a payload token with exactly one '-' between two integers
WellFormed(pair) ==
    LET halves == Split(pair, "-")
    IN  Len(halves) = 2 /\ IsInt(halves[1]) /\ IsInt(halves[2])

\* the links of the well-formed tokens of a payload, in order
LinksOfWellFormed(tokens) ==
    LET kept == SelectSeq(tokens, WellFormed)
    IN  [i \in 1..Len(kept) |->
            <<IntOf(Split(kept[i], "-")[1]), IntOf(Split(kept[i], "-")[2])>>]

\* the alignment a line of the file stands for
LinksOfLine(line) ==
    IF prog = RP THEN (IF line = <<>> THEN <<>> ELSE line[1])
    ELSE IF Len(line) = 2 THEN LinksOfWellFormed(line[2]) ELSE <<>>

\* C11: reading an alignment file never raises: once SenseProjector or
\* AlignmentEvaluator has read it, no exception ended the load and every line
\* gave the links of its well-formed tokens, the malformed ones being skipped
C11_MalformedTokenSkipped ==
    (prog \in {SP, EV} /\ pc # "files") =>
        /\ error = "none"
        /\ Len(alignments) = Len(files.alignment)
        /\ \A k \in DOMAIN files.alignment :
               alignments[k] = LinksOfLine(files.alignment[k])

\* C12: a loaded alignment file gave one alignment per line: as many
\* alignments as lines, the one at index k read from line k, an empty one
\* where the line is blank
C12_OneAlignmentPerLine ==
    pc = "loaded" =>
        /\ Len(alignments) = Len(files.alignment)
        /\ \A k \in DOMAIN files.alignment :
               alignments[k] = LinksOfLine(files.alignment[k])

\* C13: a loaded token file gave one sentence per line: as many sentences as
\* lines, sentence k holding the tokens of line k, a line without tokens
\* keeping its index as a sentence of length zero
C13_OneSentencePerLine ==
    pc = "loaded" =>
        /\ Len(english_sentences) = Len(files.english)
        /\ Len(chinese_sentences) = Len(files.target)
        /\ \A k \in DOMAIN files.english : english_sentences[k] = files.english[k]
        /\ \A k \in DOMAIN files.target : chinese_sentences[k] = files.target[k]

(***************************************************************************)
(* AlignmentEvaluator on its own: a corpus of one sentence with up to      *)
(* MaxEvalLinks links, or of two sentences with up to MaxEvalLinks links   *)
(* together, the first holding at most one; link positions 0..2, so that   *)
(* a sentence of one or two tokens also gets links beyond its end; as many *)
(* source and target sentences as alignments, one side of a pair holding   *)
(* one token and the other two.  The corpus without any line is there too. *)
(***************************************************************************)
EvalLinks == Links(2, 2)

AlignmentsUpTo(n) == SeqsFromTo(EvalLinks, 0, n)

EvalCorpora ==
    {<<>>} \cup One(AlignmentsUpTo(MaxEvalLinks))
           \cup (AlignmentsUpTo(1) \X AlignmentsUpTo(MaxEvalLinks - 1))

\* the pairs <<source sentence, target sentence>>
EvalSentences == { << <<"a">>, <<"x", "X">> >>, << <<"b", "A">>, <<"x">> >> }

\* AlignmentEvaluator at the start of main, the stores loaded
EvalStart ==
    /\ prog = EV
    /\ files = FilesOf(prog, alignments, english_sentences, chinese_sentences)
    /\ key_lines = <<>>
    /\ se13 = <<>>
    /\ sentence_to_instances = EmptyDict
    /\ previous = <<>>
    /\ report = EmptyDict
    /\ pc = "stats"
    /\ sense_dict = EmptyDict
    /\ sent_idx = 0
    /\ eng_pos = 0
    /\ se13_idx = 0
    /\ eng_pos_to_se13_idx = EmptyDict
    /\ link_idx = 0
    /\ projections = <<>>
    /\ shown = <<>>
    /\ error = "none"

InitEval ==
    /\ alignments \in EvalCorpora
    /\ \E pairs \in [1..Len(alignments) -> EvalSentences] :
           /\ english_sentences = [k \in 1..Len(alignments) |-> pairs[k][1]]
           /\ chinese_sentences = [k \in 1..Len(alignments) |-> pairs[k][2]]
    /\ EvalStart

SpecEval == InitEval /\ [][NextEV]_vars

(***************************************************************************)
(* Properties of AlignmentEvaluator.                                       *)
(***************************************************************************)
\* the sentences that get a coverage: both token sentences exist and hold tokens
CoverageSentences ==
    SortedList({k \in 0..(Len(alignments) - 1) :
                   /\ k < Len(english_sentences) /\ k < Len(chinese_sentences)
                   /\ Len(At(english_sentences, k)) > 0
                   /\ Len(At(chinese_sentences, k)) > 0})

\* the positions 0..len-1 of a sentence that are among the linked positions
LinkedPositions(linked, len) == {p \in 0..(len - 1) : p \in linked}

\* C16: the source coverage of a sentence is the number of its positions
\* 0..len-1 with at least one link over its length, the target coverage
\* likewise, and each lies in [0, 1], also when links point beyond the sentence
C16_CoverageIsLinkedShare ==
    "basic_statistics" \in DOMAIN report =>
        LET stats == report["basic_statistics"]
            ids == CoverageSentences
        IN  /\ Len(stats.english_coverage) = Len(ids)
            /\ Len(stats.target_coverage) = Len(ids)
            /\ \A n \in DOMAIN ids :
                   LET aligns == At(alignments, ids[n])
                       en_len == Len(At(english_sentences, ids[n]))
                       tgt_len == Len(At(chinese_sentences, ids[n]))
                   IN  /\ stats.english_coverage[n] =
                              <<Cardinality(LinkedPositions(SrcSet(aligns), en_len)), en_len>>
                       /\ stats.target_coverage[n] =
                              <<Cardinality(LinkedPositions(TgtSet(aligns), tgt_len)), tgt_len>>
                       /\ stats.english_coverage[n][1] <= stats.english_coverage[n][2]
                       /\ stats.target_coverage[n][1] <= stats.target_coverage[n][2]

\* the places <<sentence, link>> of the corpus
LinkPlaces == UNION { { <<k, n>> : n \in DOMAIN alignments[k] } : k \in DOMAIN alignments }

\* the number of links of the sentence with the source (target) position of link n
SourceDegree(aligns, n) == Cardinality({m \in DOMAIN aligns : aligns[m][1] = aligns[n][1]})

TargetDegree(aligns, n) == Cardinality({m \in DOMAIN aligns : aligns[m][2] = aligns[n][2]})

Topology(s, t) ==
    CASE s = 1 /\ t = 1 -> "one_to_one"
      [] s > 1 /\ t = 1 -> "one_to_many_src"
      [] s = 1 /\ t > 1 -> "many_to_one_tgt"
      [] OTHER -> "many_to_many"

LinksOfTopology(b) ==
    {place \in LinkPlaces :
        LET aligns == alignments[place[1]]
        IN  Topology(SourceDegree(aligns, place[2]), TargetDegree(aligns, place[2])) = b}

\* the alignment 0-0 1-2 2-1
ScenarioA == << <<0, 0>>, <<1, 2>>, <<2, 1>> >>

\* C17: a link with source degree s and target degree t is counted one-to-one
\* iff s = 1 and t = 1, one-to-many iff s > 1 and t = 1, many-to-one iff s = 1
\* and t > 1, many-to-many otherwise; the three links of 0-0 1-2 2-1 are all
\* one-to-one
C17_TopologyByDegrees ==
    "alignment_patterns" \in DOMAIN report =>
        /\ \A b \in Buckets :
               report["alignment_patterns"][b] = Cardinality(LinksOfTopology(b))
        /\ alignments = <<ScenarioA>> => report["alignment_patterns"]["one_to_one"] = 3

C17_Witness ==
    /\ "alignment_patterns" \in DOMAIN report
    /\ alignments = <<ScenarioA>>
    /\ report["alignment_patterns"]["one_to_one"] = 3

SumOfBuckets(counters) ==
    counters["one_to_one"] + counters["one_to_many_src"]
        + counters["many_to_one_tgt"] + counters["many_to_many"]

\* C18: every link falls into one of the four buckets; the bucket counts of a
\* sentence add up to its number of links, duplicates counted as often as
\* they occur, and the four counters of the corpus add up to its number of links
C18_BucketsPartitionLinks ==
    "alignment_patterns" \in DOMAIN report =>
        /\ SumOfBuckets(report["alignment_patterns"]) = Sum(align_counts)
        /\ report["alignment_patterns"]["total"] = Sum(align_counts)
        /\ \A k \in DOMAIN alignments :
               /\ SumOfBuckets(CountLinks(alignments[k], 1, NoLinksCounted))
                      = Len(alignments[k])
               /\ \A n \in DOMAIN alignments[k] :
                      Classify(SrcCount(alignments[k], alignments[k][n][1]),
                               TgtCount(alignments[k], alignments[k][n][2])) \in Buckets

\* two sentences with links, one of them holding the same link twice
C18_Witness ==
    /\ "alignment_patterns" \in DOMAIN report
    /\ Len(alignments) = 2
    /\ alignments[1] # <<>>
    /\ Len(alignments[2]) = 2 /\ alignments[2][1] = alignments[2][2]
    /\ report["alignment_patterns"]["total"] = 3

\* two links of the sentence cross, in whatever order they are stored
CrossingPair(aligns) ==
    \E m, n \in DOMAIN aligns : aligns[m][1] < aligns[n][1] /\ aligns[m][2] > aligns[n][2]

\* C19: a sentence is counted as crossing iff it holds two links (i1, j1) and
\* (i2, j2) with i1 < i2 and j1 > j2, in whatever order they are stored; the
\* alignment 0-0 1-2 2-1 is crossing
C19_CrossingIffCrossingPair ==
    "typical_errors" \in DOMAIN report =>
        /\ report["typical_errors"].crossing_count
               = Cardinality({k \in DOMAIN alignments : CrossingPair(alignments[k])})
        /\ \A k \in DOMAIN alignments :
               (k \in CrossingSentences /\ has_crossing(alignments[k]))
                   <=> CrossingPair(alignments[k])
        /\ alignments = <<ScenarioA>> => report["typical_errors"].crossing_count = 1

\* the crossing pair is stored with its second link first
C19_Witness ==
    /\ "typical_errors" \in DOMAIN report
    /\ alignments = << << <<1, 0>>, <<0, 1>> >> >>
    /\ report["typical_errors"].crossing_count = 1

InsertAt(s, p, x) == SubSeq(s, 1, p) \o <<x>> \o SubSeq(s, p + 1, Len(s))

\* the sentence is counted by the crossing loop
CountedCrossing(aligns) == ~(Len(aligns) < 2) /\ has_crossing(aligns)

\* C20: a sentence counted as crossing stays counted when a link is added to
\* its alignment, at any place of the list, a copy of one of its links included
C20_CrossingMonotone ==
    "typical_errors" \in DOMAIN report =>
        \A k \in DOMAIN alignments :
            CountedCrossing(alignments[k]) =>
                \A link \in EvalLinks : \A p \in 0..Len(alignments[k]) :
                    CountedCrossing(InsertAt(alignments[k], p, link))

\* a counted crossing sentence whose crossing links are next to each other
C20_Witness ==
    /\ "typical_errors" \in DOMAIN report
    /\ report["typical_errors"].crossing_count = 1
    /\ \E k \in DOMAIN alignments :
           /\ Len(alignments[k]) = 2
           /\ CountedCrossing(alignments[k])
           /\ CountedCrossing(InsertAt(alignments[k], 1, <<2, 2>>))

(***************************************************************************)
(* Stores of different sizes.  The annotation table holds one or two       *)
(* sentences, with or without an instance; the alignment file and the two  *)
(* token files hold none to MaxStoreLen sentences each, independently, so  *)
(* that a sentence index can exist in one store and lie beyond the end of  *)
(* another.  Every link is 0-0 and every sentence holds a token: no link   *)
(* points outside its sentences.  SenseProjector.project_senses may be     *)
(* run again on the same object, up to MaxRuns times in all.               *)
(***************************************************************************)
\* project_senses called once more: a fresh projected_senses, the stores as
\* the earlier run left them
SPRerun ==
    /\ prog = SP /\ pc = "done"
    /\ Len(previous) < MaxRuns - 1
    /\ previous' = Append(previous, projections)
    /\ projections' = <<>>
    /\ sent_idx' = 0
    /\ pc' = "sentence"
    /\ UNCHANGED <<inputs, stores, report, sentence_to_instances, sense_dict, eng_pos,
                   se13_idx, eng_pos_to_se13_idx, link_idx, shown, error>>

NextStores == Next \/ SPRerun \/ NextEV

StoreRows == { <<Row("a", "I1")>>, <<Row("b", NoInstance)>> }

StoreEnglish == { <<"a">>, <<"a", "b">> }

StoreTarget == { <<"x">> }

StoreAlignments == { <<>>, << <<0, 0>> >> }

InitStores ==
    \/ InitWith(Progs, { << <<"I1", "S1">> >> },
                SeqsFromTo(StoreRows, 1, MaxStoreLen)
                    \X SeqsFromTo(StoreEnglish, 0, MaxStoreLen),
                SeqsFromTo(StoreTarget, 0, MaxStoreLen),
                SeqsFromTo(StoreAlignments, 0, MaxStoreLen))
    \/ /\ alignments \in SeqsFromTo(StoreAlignments, 0, MaxStoreLen)
       /\ english_sentences \in SeqsFromTo(StoreEnglish, 0, MaxStoreLen)
       /\ chinese_sentences \in SeqsFromTo(StoreTarget, 0, MaxStoreLen)
       /\ EvalStart

SpecStores == InitStores /\ [][NextStores]_vars

\* no link points outside the sentences it links, where the stores hold them
LinksWithinSentences ==
    \A k \in DOMAIN alignments : \A n \in DOMAIN alignments[k] :
        /\ k <= Len(english_sentences) => alignments[k][n][1] < Len(english_sentences[k])
        /\ k <= Len(chinese_sentences) => alignments[k][n][2] < Len(chinese_sentences[k])

\* some store ends before another does
StoresDiffer ==
    \/ Len(alignments) # Len(english_sentences)
    \/ Len(alignments) # Len(chinese_sentences)
    \/ (prog # EV /\ Len(alignments) # NumSentences)

\* C14: a sentence index that one input has and another has not is no data:
\* every operation skips the sentence, none ends in an out-of-bounds fault
\* (with every link inside its sentences no other read can go out of bounds)
C14_MissingSentenceSkipped ==
    (LinksWithinSentences /\ StoresDiffer) => error # "IndexError"

\* C15: once the stores are loaded no operation changes any of them, and a
\* second run of the projection returns the list the first run returned
C15_StoresUnchanged ==
    [][pc \notin {"files", "load"} =>
          /\ UNCHANGED <<key_lines, files, se13, alignments, english_sentences,
                         chinese_sentences, sense_dict, sentence_to_instances>>
          /\ (pc' = "done" /\ previous' # <<>>) => projections' = previous'[1]]_vars

\* the second run has ended with the records of the first
C15_Witness ==
    /\ prog = SP /\ pc = "done"
    /\ previous # <<>>
    /\ projections # <<>>
    /\ projections = previous[1]
    /\ sentence_to_instances = load_token_mappings(se13)

(***************************************************************************)
(* Chain lengths.                                                          *)
(***************************************************************************)
\* the degrees of all the links of the corpus, each link counted where it stands
SourceDegrees == { SourceDegree(alignments[p[1]], p[2]) : p \in LinkPlaces }

TargetDegrees == { TargetDegree(alignments[p[1]], p[2]) : p \in LinkPlaces }

\* C21: the reported chain lengths are the maxima over the whole corpus of the
\* per-sentence degrees (the number of links of one sentence that share a source
\* position, and likewise a target position), 0 when the corpus has no link;
\* the degrees count the links of the list, so k identical links count k
C21_ChainsAreMaxDegrees ==
    "typical_errors" \in DOMAIN report =>
        /\ report["typical_errors"].max_chain_src =
               (IF LinkPlaces = {} THEN 0 ELSE Max(SourceDegrees))
        /\ report["typical_errors"].max_chain_tgt =
               (IF LinkPlaces = {} THEN 0 ELSE Max(TargetDegrees))

\* a sentence of two identical links after a sentence of one link: chains of 2
C21_Witness ==
    /\ "typical_errors" \in DOMAIN report
    /\ Len(alignments) = 2
    /\ Len(alignments[1]) = 1
    /\ Len(alignments[2]) = 2
    /\ alignments[2][1] = alignments[2][2]
    /\ report["typical_errors"].max_chain_src = 2
    /\ report["typical_errors"].max_chain_tgt = 2

(***************************************************************************)
(* Comparison with a second method.  self.alignments holds one or two      *)
(* sentences of up to MaxCompareLinks links 0-1 and 1-0, copies included;  *)
(* the other file holds none, one or two lines with a subset of these      *)
(* links, or a line that carries a token with two hyphens, or a line of    *)
(* three fields.  The evaluator is taken after find_unaligned_tokens.      *)
(***************************************************************************)
MaxCompareLinks == 2

CompareLinks == { <<0, 1>>, <<1, 0>> }

CompareAlignments == SeqsFromTo(CompareLinks, 0, MaxCompareLinks)

CompareCorpora == SeqsFromTo(CompareAlignments, 1, 2)

\* what the other method found in a sentence
OtherAlignments == { <<>>, << <<0, 1>> >>, << <<1, 0>> >>, << <<0, 1>>, <<1, 0>> >> }

OtherFiles ==
    { [k \in 1..Len(aligns) |-> AlignmentLine(k - 1, aligns[k])] :
          aligns \in SeqsFromTo(OtherAlignments, 0, 2) }
    \cup { << << <<DigitsOf(0)>>, << <<"0", "-", "1", "-", "1">> >> >> >>,
           << AlignmentLineOf(0, "fields"), AlignmentLineOf(1, "one") >> }

InitCompare ==
    /\ prog = EV
    /\ alignments \in CompareCorpora
    /\ english_sentences = [k \in 1..Len(alignments) |-> <<"a", "b">>]
    /\ chinese_sentences = [k \in 1..Len(alignments) |-> <<"x", "X">>]
    /\ \E other \in OtherFiles :
           files = [alignment |-> [k \in 1..Len(alignments) |->
                                      AlignmentLine(k - 1, alignments[k])],
                    english |-> english_sentences,
                    target |-> chinese_sentences,
                    other |-> other]
    /\ key_lines = <<>>
    /\ se13 = <<>>
    /\ sentence_to_instances = EmptyDict
    /\ previous = <<>>
    /\ report = Put(Put(Put(Put(EmptyDict,
                    "basic_statistics", compute_basic_statistics),
                    "alignment_patterns", analyze_alignment_patterns),
                    "typical_errors", identify_typical_errors),
                    "unaligned_tokens", unaligned_examples(0, <<>>))
    /\ pc = "samples"
    /\ sense_dict = EmptyDict
    /\ sent_idx = 0
    /\ eng_pos = 0
    /\ se13_idx = 0
    /\ eng_pos_to_se13_idx = EmptyDict
    /\ link_idx = 0
    /\ projections = <<>>
    /\ shown = <<>>
    /\ error = "none"

SpecCompare == InitCompare /\ [][NextCompare]_vars

\* the links of sentence k (from 0) in self.alignments and in the other file
LinksA(k) == { alignments[k + 1][n] : n \in DOMAIN alignments[k + 1] }

LinksB(k) ==
    { LinksOfLine(files.other[k + 1])[n] : n \in DOMAIN LinksOfLine(files.other[k + 1]) }

\* the sentences both methods have
ComparedSentences == 0..(Min({Len(alignments), Len(files.other)}) - 1)

\* those where at least one of the two link sets is non-empty, in order
Qualifying == SortedList({k \in ComparedSentences : LinksA(k) # {} \/ LinksB(k) # {}})

\* |A n B| / |A u B| of sentence k as an exact ratio
Jaccard(k) ==
    <<Cardinality({l \in LinksA(k) : l \in LinksB(k)}),
      Cardinality({l \in LinksA(k) : l \notin LinksB(k)}) + Cardinality(LinksB(k))>>

\* C22: the agreement score of a sentence is the size of the intersection of
\* its two link sets over the size of their union: 1.0 when a non-empty set
\* meets itself, 0.0 when the two sets are non-empty and disjoint
C22_JaccardPerSentence ==
    "compare_methods" \in DOMAIN report =>
        LET agreement == report["compare_methods"].agreement
        IN  /\ Len(agreement) = Len(Qualifying)
            /\ \A n \in DOMAIN Qualifying :
                   LET k == Qualifying[n]
                   IN  /\ agreement[n] = Jaccard(k)
                       /\ LinksA(k) = LinksB(k) => agreement[n][1] = agreement[n][2]
                       /\ (LinksA(k) # {} /\ LinksB(k) # {} /\ LinksA(k) \cap LinksB(k) = {})
                              => (agreement[n][1] = 0 /\ agreement[n][2] > 0)

\* a sentence compared against itself (two distinct links) before a sentence
\* whose two sets are disjoint: scores 2/2 and 0/2
C22_Witness ==
    /\ "compare_methods" \in DOMAIN report
    /\ Len(alignments) = 2 /\ Len(files.other) = 2
    /\ LinksA(0) = CompareLinks /\ LinksB(0) = CompareLinks
    /\ LinksA(1) = { <<0, 1>> } /\ LinksB(1) = { <<1, 0>> }
    /\ report["compare_methods"].agreement = << <<2, 2>>, <<0, 2>> >>

\* the sum of the scores of the qualifying sentences, as an exact ratio
QualifyingSum == FracSum([n \in DOMAIN Qualifying |-> Jaccard(Qualifying[n])])

\* C23: the corpus agreement score is the mean of the per-sentence scores over
\* exactly the sentences where at least one of the two link sets is non-empty;
\* a sentence where both are empty adds neither to the sum nor to the count,
\* and without any qualifying sentence no score is reported
C23_MeanOverQualifying ==
    "compare_methods" \in DOMAIN report =>
        LET result == report["compare_methods"]
        IN  /\ Len(result.agreement) =
                   Cardinality(ComparedSentences)
                   - Cardinality({k \in ComparedSentences : LinksA(k) = {} /\ LinksB(k) = {}})
            /\ IF Qualifying = <<>> THEN result.avg_agreement = <<>>
               ELSE /\ Len(result.avg_agreement) = 2
                    /\ result.avg_agreement[2] > 0
                    /\ result.avg_agreement[1] * (QualifyingSum[2] * Len(Qualifying))
                           = QualifyingSum[1] * result.avg_agreement[2]

\* one sentence where both sets are empty and one scoring 1/2: the mean is 1/2
C23_Witness ==
    /\ "compare_methods" \in DOMAIN report
    /\ Len(alignments) = 2 /\ Len(files.other) = 2
    /\ LinksA(0) = {} /\ LinksB(0) = {}
    /\ LinksA(1) = CompareLinks /\ LinksB(1) = { <<0, 1>> }
    /\ Len(report["compare_methods"].agreement) = 1
    /\ 2 * report["compare_methods"].avg_agreement[1] = report["compare_methods"].avg_agreement[2]

\* Scenario D: A = {(0, 1)} and B = {} for one sentence, both empty elsewhere
ScenarioD ==
    /\ "compare_methods" \in DOMAIN report
    /\ Len(alignments) = Len(files.other)
    /\ \E k \in ComparedSentences :
           /\ LinksA(k) = { <<0, 1>> } /\ LinksB(k) = {}
           /\ \A o \in ComparedSentences \ {k} : LinksA(o) = {} /\ LinksB(o) = {}

\* C24 as stated: in Scenario D the sentence is left out of the agreement mean:
\* it adds nothing to the list of scores, so it is scored neither 0 nor 1
C24_ScenarioDExcluded ==
    ScenarioD => /\ report["compare_methods"].agreement = <<>>
                 /\ report["compare_methods"].avg_agreement = <<>>

\* C24 as amended: in Scenario D the sentence qualifies, since one of its two
\* sets is non-empty: its score 0/1 is the only one of the list and the mean is 0
C24_ScenarioDScoredZero ==
    ScenarioD => /\ report["compare_methods"].agreement = << <<0, 1>> >>
                 /\ report["compare_methods"].avg_agreement[1] = 0
                 /\ report["compare_methods"].avg_agreement[2] > 0

\* Scenario D in a corpus of two sentences
C24_Witness ==
    /\ ScenarioD
    /\ Len(alignments) = 2
    /\ LinksA(1) = { <<0, 1>> }

(***************************************************************************)
(* Order and multiplicity of the links read from a payload.                *)
(***************************************************************************)
\* a token the parser reads as a link or passes over: not one with a hyphen
\* that is no link
Readable(pair) == WellFormed(pair) \/ ~Contains(pair, "-")

\* the lines with a payload
PayloadLines == {k \in DOMAIN files.alignment : Len(files.alignment[k]) = 2}

SurvivesAlone(link, k) ==
    LET rows == At(se13, k)
    IN  IF prog = RP
        THEN LET m == GreedyMap(At(english_sentences, k), rows)
             IN  /\ link[1] < Len(At(english_sentences, k))
                 /\ link[2] < Len(At(chinese_sentences, k))
                 /\ link[1] \in DOMAIN m
                 /\ LET id == At(rows, m[link[1]]).instance_id
                    IN  /\ id # NoInstance
                        /\ id \in DOMAIN sense_dict
                        /\ InstanceCount(rows, id) = 1
        ELSE /\ link[1] < Len(rows)
             /\ At(rows, link[1]).instance_id # NoInstance
             /\ At(rows, link[1]).instance_id \in DOMAIN sense_dict
             /\ link[2] < Len(At(chinese_sentences, k))

\* and the record it emits for it
RecordAlone(link, k) ==
    LET rows == At(se13, k)
    IN  IF prog = RP
        THEN <<sense_dict[At(rows, GreedyMap(At(english_sentences, k), rows)[link[1]])
                              .instance_id],
               At(At(chinese_sentences, k), link[2])>>
        ELSE <<sense_dict[At(rows, link[1]).instance_id],
               Lower(At(At(chinese_sentences, k), link[2]))>>

RECURSIVE RecordsAlone(_, _)
RecordsAlone(links, k) ==
    IF links = <<>> THEN <<>>
    ELSE (IF SurvivesAlone(Head(links), k) THEN <<RecordAlone(Head(links), k)>> ELSE <<>>)
         \o RecordsAlone(Tail(links), k)

\* the record lists of the sentences 0..n-1, each projected on its own, one
\* after the other
RECURSIVE AloneBefore(_)
AloneBefore(n) ==
    IF n = 0 THEN <<>>
    ELSE AloneBefore(n - 1)
         \o (IF SkippedSentence(n - 1) THEN <<>>
             ELSE RecordsAlone(At(alignments, n - 1), n - 1))

\* C26: projection has no dependency across sentences: the record list of the
\* whole corpus is the concatenation, by increasing sentence index, of the
\* record lists got by projecting each sentence on its own
C26_CorpusIsConcatenation ==
    (prog \in Progs /\ pc \in {"done", "shown"}) => projections = AloneBefore(Len(se13))

\* C28: SenseProjector pairs every annotation sentence with the alignment and
\* the token sequences at the sentence's own index, its rank among all the
\* sentence ids of the annotation table: while the links at index sent_idx
\* are processed the instances are those of annotation sentence sent_idx, a
\* sentence without any instance_id occupying its index all the same
C28_OwnIndexPairing ==
    (prog = SP /\ pc = "links") =>
        /\ sent_idx < Len(se13)
        /\ SPCurInstances = token_to_instance(At(se13, sent_idx))

(***************************************************************************)
(* The cursor of the reconciliation pass.                                  *)
(***************************************************************************)
\* the aligner-source positions the pass has dealt with and left unmapped
Unmapped == {p \in 0..(eng_pos - 1) : p \notin DOMAIN eng_pos_to_se13_idx}

\* C27: once the pass leaves an aligner-source position p unmapped the cursor
\* is at the end of the annotation sequence, so every later position is left
\* unmapped too: the mapped positions are an initial segment 0..k-1 of the
\* aligner-source positions
C27_MappedInitialSegment ==
    (prog = RP /\ pc \in {"recon", "links"}) =>
        /\ (pc = "recon" /\ Unmapped # {}) => se13_idx = Len(CurSe13)
        /\ \A p \in Unmapped : \A q \in (p + 1)..(eng_pos - 1) : q \in Unmapped
        /\ DOMAIN eng_pos_to_se13_idx = 0..(Cardinality(DOMAIN eng_pos_to_se13_idx) - 1)

\* a pass over three tokens that mapped the first and left the two others
\* unmapped, with annotation tokens enough for all three
C27_Witness ==
    /\ prog = RP /\ pc = "links"
    /\ Len(CurEnglish) = 3 /\ Len(CurSe13) = 3
    /\ DOMAIN eng_pos_to_se13_idx = {0}

\* the program goes on as long as it has a step to take
SpecReconFair == SpecRecon /\ WF_vars(NextRP)

\* C29: during the reconciliation pass the cursor never decreases and never
\* exceeds the length of the annotation sequence, so that the pass comes to
\* an end and every value stored in the map is a valid annotation index when
\* the links are processed
C29_CursorBoundedPassEnds ==
    /\ [][(prog = RP /\ pc = "recon") => se13_idx' >= se13_idx]_vars
    /\ []((prog = RP /\ pc = "recon") => se13_idx <= Len(CurSe13))
    /\ []((prog = RP /\ pc \in {"recon", "links"}) =>
              \A p \in DOMAIN eng_pos_to_se13_idx :
                  0 <= eng_pos_to_se13_idx[p] /\ eng_pos_to_se13_idx[p] < Len(CurSe13))
    /\ [](error # "IndexError")
    /\ ((prog = RP /\ pc = "recon") ~> (pc = "links"))

\* the cursor went past every annotation token, and the link 0-0 then read the
\* annotation token at the stored index 2
C29_Witness ==
    /\ prog = RP /\ pc = "done"
    /\ Len(At(se13, 0)) = 3
    /\ eng_pos = Len(At(english_sentences, 0))
    /\ DOMAIN eng_pos_to_se13_idx = {0}
    /\ eng_pos_to_se13_idx[0] = 2
    /\ se13_idx = 2

(***************************************************************************)
(* Basic statistics of an empty store.                                     *)
(***************************************************************************)
\* C30: compute_basic_statistics completes without raising for every loaded
\* store, the one of an alignment file without lines included: there the
\* total, the average, the minimum, the maximum and the share of sentences
\* without links are all reported, as 0
C30_StatisticsOfAnyStore ==
    (prog = EV /\ pc # "stats") =>
        /\ error = "none"
        /\ "basic_statistics" \in DOMAIN report
        /\ Len(alignments) = 0 =>
               /\ report["basic_statistics"].total_alignments = 0
               /\ report["basic_statistics"].avg_alignments[1] = 0
               /\ report["basic_statistics"].min_align = 0
               /\ report["basic_statistics"].max_align = 0
               /\ report["basic_statistics"].no_align = 0

====
